---- MODULE Spec2Model ----
(***************************************************************************)
(* Model of aozora_api (src/main.py): a FastAPI service that serves        *)
(* excerpts of Aozora Bunko works from an in-memory list refilled by a     *)
(* background asyncio task, with a live fetch when the list is empty.      *)
(*                                                                         *)
(* Concurrency: one asyncio event loop runs the replenisher coroutine and  *)
(* the request coroutines; a coroutine runs without interruption from one  *)
(* await to the next, so each action below is one such stretch.  The       *)
(* blocking fetch runs in worker threads (asyncio.to_thread).              *)
(*                                                                         *)
(* Text is a sequence of characters drawn from a small alphabet:           *)
(*   "x"  a non-blank character                                            *)
(*   "SP" a blank that is not a line boundary (space, tab, U+3000)         *)
(*   "LF" the newline character                                            *)
(*   "CR" the carriage return, which with a newline after it is one line   *)
(*        boundary                                                         *)
(*   "VT" a line boundary of one character other than these (\v, \f, ...)  *)
(***************************************************************************)
EXTENDS Integers, Sequences, FiniteSets, TLC

VARIABLES
    df_aozora,     \* the catalog: None or a set of rows            (main.py:45-53)
    novel_cache,   \* the list of NovelCache objects                (main.py:65)
    rpc,           \* where the replenish_cache coroutine is        (main.py:134-141)
    loop,          \* {} when the event loop is free, {t} while task t holds it
    fth,           \* per task: state of its fetch_and_process_novel call
    frow,          \* per task: novel_info, the row the call sampled
    fres,          \* per task: what the call returned
    born,          \* per task: NovelCache objects its calls have constructed
    req,           \* per request: the get_cached_novel_intro coroutine
    appended,      \* history: objects appended to novel_cache, in order
    taken,         \* history: objects popped from novel_cache, in order
    rlast,         \* history: how the replenisher's latest iteration went
    cleaned_text,  \* text pipeline: main_text_div.get_text()       (main.py:114)
    final_text,    \* text pipeline: the normalised body            (main.py:118)
    num_chars,     \* text pipeline: the requested length           (main.py:159)
    intro_text,    \* text pipeline: the excerpt                    (main.py:168-172)
    tpc            \* text pipeline: position

sysVars  == <<df_aozora, novel_cache, rpc, loop, fth, frow, fres, born, req,
              appended, taken, rlast>>
textVars == <<cleaned_text, final_text, num_chars, intro_text, tpc>>
vars     == <<df_aozora, novel_cache, rpc, loop, fth, frow, fres, born, req,
              appended, taken, rlast, cleaned_text, final_text, num_chars,
              intro_text, tpc>>

----------------------------------------------------------------------------
(* Bounds of the model and constants of the program.                       *)

CACHE_SIZE == 20

\* Number of requests that arrive in a behaviour.
MaxRequests == 2

\* Longest text fed to the normalisation.
MaxLen == 6

\* Largest requested length tried (the interface allows 1..1000).
MaxChars == 7

----------------------------------------------------------------------------
(* Text: str.splitlines, str.strip, str.join, re.sub.                      *)

Chars == {"x", "SP", "LF", "CR", "VT"}

\* Characters str.strip removes (str.isspace).
Whitespace == {"SP", "LF", "CR", "VT"}

\* Characters str.splitlines splits at.
LineBoundaries == {"LF", "CR", "VT"}

Ellipsis == "ELLIPSIS"

RECURSIVE SplitFrom(_, _, _)
SplitFrom(s, i, cur) ==
    IF i > Len(s)
    THEN (IF cur = <<>> THEN <<>> ELSE <<cur>>)
    ELSE IF s[i] = "CR" /\ i < Len(s) /\ s[i + 1] = "LF"
    THEN <<cur>> \o SplitFrom(s, i + 2, <<>>)
    ELSE IF s[i] \in LineBoundaries
    THEN <<cur>> \o SplitFrom(s, i + 1, <<>>)
    ELSE SplitFrom(s, i + 1, Append(cur, s[i]))

\* str.splitlines(): "\r\n" is one boundary; a final boundary opens no empty line.
splitlines(s) == SplitFrom(s, 1, <<>>)

RECURSIVE lstrip(_)
lstrip(s) ==
    IF s # <<>> /\ Head(s) \in Whitespace THEN lstrip(Tail(s)) ELSE s

RECURSIVE rstrip(_)
rstrip(s) ==
    IF s # <<>> /\ s[Len(s)] \in Whitespace
    THEN rstrip(SubSeq(s, 1, Len(s) - 1))
    ELSE s

\* str.strip()
strip(s) == rstrip(lstrip(s))

RECURSIVE join(_, _)
\* sep.join(lines)
join(sep, lines) ==
    IF lines = <<>> THEN <<>>
    ELSE IF Len(lines) = 1 THEN lines[1]
    ELSE lines[1] \o sep \o join(sep, Tail(lines))

RECURSIVE RunLen(_, _)
\* Length of the run of newlines that starts at position i.
RunLen(s, i) ==
    IF i <= Len(s) /\ s[i] = "LF" THEN 1 + RunLen(s, i + 1) ELSE 0

RECURSIVE SubRunsFrom(_, _, _)
SubRunsFrom(s, i, least) ==
    IF i > Len(s) THEN <<>>
    ELSE LET k == RunLen(s, i)
         IN  IF k >= least
             THEN <<"LF", "LF">> \o SubRunsFrom(s, i + k, least)
             ELSE <<s[i]>> \o SubRunsFrom(s, i + 1, least)

CollapseFourOrMore(s) == SubRunsFrom(s, 1, 4)

\* re.sub(r'\n{3,}', '\n\n', s)
CollapseNewlines(s) == SubRunsFrom(s, 1, 3)

\* The element of a set of one element.
Only(S) == CHOOSE x \in S : TRUE

\* [line.strip() for line in lines]
StripEach(lines) == [i \in 1..Len(lines) |-> strip(lines[i])]

\* main.py:115-118.  Each intermediate value is bound as the element of a set
\* of one element, so that it is computed once.
NormalizeText(text) ==
    Only({ strip(collapsed) :
             collapsed \in { CollapseNewlines(normalized_text) :
               normalized_text \in { join(<<"LF">>, stripped_lines) :
                 stripped_lines \in { StripEach(lines) :
                   lines \in { splitlines(cleaned) : cleaned \in {text} } } } } })

ExcerptAtBoundary(content, n) ==
    IF Len(content) >= n THEN SubSeq(content, 1, n) \o <<Ellipsis>> ELSE content

\* main.py:168-172
Excerpt(content, n) ==
    IF Len(content) > n THEN SubSeq(content, 1, n) \o <<Ellipsis>> ELSE content

\* Query(200, gt=0, le=1000)
ValidNumChars(n) == n > 0 /\ n <= 1000

----------------------------------------------------------------------------
(* Values.                                                                 *)

None == [kind |-> "None"]

\* An exception object travelling up the call stack.
Raised(what) == [kind |-> "Exception", what |-> what]

\* The tasks: the replenisher, and one per request.
Replenisher == 0
Requests == 1..MaxRequests
Tasks == {Replenisher} \cup Requests

\* Rows of list_person_all_extended.csv (main.py:47-51): one work in the public
\* domain and one under copyright.
CatalogRows ==
    { [title |-> "work1", copyright |-> "nashi", family |-> "F1", given |-> "G1",
       url |-> <<"..", "cards", "1.html">>],
      [title |-> "work2", copyright |-> "ari", family |-> "F2", given |-> "G2",
       url |-> <<"..", "cards", "2.html">>] }

\* The csv file at start-up: absent, present with no row, present with rows.
CsvFiles == {"absent", "empty", "rows"}

LoadCatalogUnguarded(file) ==
    CASE file = "absent" -> Raised("FileNotFoundError")
      [] file = "empty"  -> [kind |-> "DataFrame", rows |-> {}]
      [] OTHER           -> [kind |-> "DataFrame", rows |-> CatalogRows]

\* main.py:45-53
LoadCatalog(file) ==
    CASE file = "absent" -> None
      [] file = "empty"  -> [kind |-> "DataFrame", rows |-> {}]
      [] OTHER           -> [kind |-> "DataFrame", rows |-> CatalogRows]

\* The children of <div class="main_text">: characters, <br> elements ("BR") and
\* <rt>/<rp> elements ("RT").
MainTextDiv ==
    <<"SP", "x", "RT", "BR", "BR", "SP", "BR", "x", "x", "CR", "LF">>

\* What the GET on the work's page can bring back.
HttpResponses ==
    { [status |-> "error", main_text |-> None],            \* raise_for_status / network
      [status |-> "ok",    main_text |-> None],            \* no div.main_text
      [status |-> "ok",    main_text |-> [kind |-> "div", children |-> MainTextDiv]] }

RECURSIVE GetText(_)
\* main.py:109-114: rt and rp decomposed, br replaced by "\n", then get_text()
GetText(children) ==
    IF children = <<>> THEN <<>>
    ELSE LET c == Head(children)
         IN  IF c = "RT" THEN GetText(Tail(children))
             ELSE IF c = "BR" THEN <<"LF">> \o GetText(Tail(children))
             ELSE <<c>> \o GetText(Tail(children))

RECURSIVE DropParents(_)
\* relative_url.replace('../', '')
DropParents(path) ==
    IF path = <<>> THEN <<>>
    ELSE IF Head(path) = ".." THEN DropParents(Tail(path))
    ELSE <<Head(path)>> \o DropParents(Tail(path))

\* main.py:96-98
AbsoluteUrl(row) == <<"https://www.aozora.gr.jp">> \o DropParents(row.url)

\* main.py:120-125; obj is the identity of the object constructed.
NewNovelCache(row, text, obj) ==
    [kind |-> "NovelCache", name |-> row.title,
     author |-> <<row.family, row.given>>, content |-> text,
     url |-> AbsoluteUrl(row), obj |-> obj]

Propagate(what) == Raised(what)

\* main.py:126-128: except Exception: print, return None
OnException(what) == None

\* main.py:100-125: what the call returns once the GET has answered.
ProcessResponse(row, response, obj) ==
    IF response.status # "ok" THEN OnException("HTTPError")
    ELSE IF response.main_text = None THEN None
    ELSE NewNovelCache(row, NormalizeText(GetText(response.main_text.children)), obj)

\* Python truth of the value fetch_and_process_novel returned (a pydantic model
\* object is true, None is false).
Truthy(v) == v # None

PopLast(list) ==
    IF list = <<>> THEN [value |-> Raised("IndexError"), rest |-> list]
    ELSE [value |-> list[Len(list)], rest |-> SubSeq(list, 1, Len(list) - 1)]

Peek0(list) ==
    IF list = <<>> THEN [value |-> Raised("IndexError"), rest |-> list]
    ELSE [value |-> Head(list), rest |-> list]

\* list.pop(0): the value returned and the list left.
Pop0(list) ==
    IF list = <<>> THEN [value |-> Raised("IndexError"), rest |-> list]
    ELSE [value |-> Head(list), rest |-> Tail(list)]

\* raise HTTPException(status_code=503, ...)
Unavailable == [kind |-> "HTTPException", status_code |-> 503]

\* An exception that leaves the handler: the framework answers 500.
InternalServerError == [kind |-> "HTTPException", status_code |-> 500]

RespondCachedWhole(novel, n) ==
    IF novel.kind # "NovelCache" THEN InternalServerError
    ELSE [kind |-> "SearchResult", name |-> novel.name, author |-> novel.author,
          content |-> IF novel.obj[1] = Replenisher THEN novel.content
                      ELSE Excerpt(novel.content, n),
          url |-> novel.url]

\* main.py:168-179
Respond(novel, n) ==
    IF novel.kind # "NovelCache" THEN InternalServerError
    ELSE [kind |-> "SearchResult", name |-> novel.name, author |-> novel.author,
          content |-> Excerpt(novel.content, n), url |-> novel.url]

\* A request that has not arrived.  path and overlap are history: which branch
\* of main.py:160 the request took, and whether a fetch of the replenisher that
\* was in flight when the request arrived has been in flight ever since.
NewRequest ==
    [pc |-> "new", num_chars |-> 0, path |-> "none", novel |-> None, resp |-> None,
     overlap |-> FALSE]

\* The length request r asks for: the shortest and the longest tried, by turns.
\* The length decides nothing but the excerpt, which the text pipeline below
\* computes for every length.
RequestLength(r) == IF r % 2 = 1 THEN 1 ELSE MaxChars

\* The lengths the requests ask for.
RequestLengths == {RequestLength(r) : r \in {1, 2}}

\* The requested lengths tried on the text pipeline.
PipelineLengths == {n \in 1..MaxChars : ValidNumChars(n)}

RECURSIVE TextsOfLen(_)
TextsOfLen(n) ==
    IF n = 0 THEN {<<>>}
    ELSE {Append(t, c) : t \in TextsOfLen(n - 1), c \in Chars}

\* The texts of at most n characters.
TextsUpTo(n) == UNION {TextsOfLen(k) : k \in 0..n}

----------------------------------------------------------------------------
(* Initial state: the module has been imported (main.py:45-66).            *)

TextIdle ==
    /\ cleaned_text = <<>>
    /\ final_text = <<>>
    /\ num_chars = 0
    /\ intro_text = <<>>
    /\ tpc = "off"

SysInit(files) ==
    /\ df_aozora \in {LoadCatalog(f) : f \in files}
    /\ novel_cache = <<>>
    /\ rpc = "not_started"
    /\ loop = {}
    /\ fth = [t \in Tasks |-> "idle"]
    /\ frow = [t \in Tasks |-> None]
    /\ fres = [t \in Tasks |-> None]
    /\ born = [t \in Tasks |-> 0]
    /\ req = [r \in Requests |-> NewRequest]
    /\ appended = <<>>
    /\ taken = <<>>
    /\ rlast = "none"

Init == SysInit(CsvFiles) /\ TextIdle

----------------------------------------------------------------------------
(* fetch_and_process_novel, run in a worker thread for task t               *)
(* (main.py:85-128).  It reads df_aozora and nothing else of the state.     *)

FetchFrame ==
    UNCHANGED <<df_aozora, novel_cache, rpc, loop, req, appended, taken, rlast>>

Return(t, value) ==
    /\ fth' = [fth EXCEPT ![t] = "returned"]
    /\ fres' = [fres EXCEPT ![t] = value]
    /\ frow' = [frow EXCEPT ![t] = None]

\* main.py:87-88
FetchNoCatalog(t) ==
    /\ fth[t] = "called"
    /\ df_aozora = None
    /\ Return(t, None)
    /\ UNCHANGED born
    /\ FetchFrame /\ UNCHANGED textVars

\* main.py:91, 126-128: sample(n=1) of an empty frame raises ValueError
FetchSampleError(t) ==
    /\ fth[t] = "called"
    /\ df_aozora # None
    /\ df_aozora.rows = {}
    /\ Return(t, OnException("ValueError"))
    /\ UNCHANGED born
    /\ FetchFrame /\ UNCHANGED textVars

\* main.py:91-94
FetchCopyrighted(t) ==
    /\ fth[t] = "called"
    /\ df_aozora # None
    /\ \E novel_info \in df_aozora.rows :
          /\ novel_info.copyright = "ari"
          /\ Return(t, None)
    /\ UNCHANGED born
    /\ FetchFrame /\ UNCHANGED textVars

\* main.py:91-100: a row in the public domain; the GET goes out
FetchGet(t) ==
    /\ fth[t] = "called"
    /\ df_aozora # None
    /\ \E novel_info \in df_aozora.rows :
          /\ novel_info.copyright # "ari"
          /\ fth' = [fth EXCEPT ![t] = "http"]
          /\ frow' = [frow EXCEPT ![t] = novel_info]
    /\ UNCHANGED <<fres, born>>
    /\ FetchFrame /\ UNCHANGED textVars

\* main.py:100-107, 126-128: the GET fails, or the page has no main_text
FetchFailed(t) ==
    /\ fth[t] = "http"
    /\ \E response \in HttpResponses :
          /\ response.main_text = None
          /\ Return(t, ProcessResponse(frow[t], response, <<t, born[t] + 1>>))
    /\ UNCHANGED born
    /\ FetchFrame /\ UNCHANGED textVars

\* main.py:100-125: the page is parsed and a NovelCache object constructed
FetchParsed(t) ==
    /\ fth[t] = "http"
    /\ \E response \in HttpResponses :
          /\ response.main_text # None
          /\ Return(t, ProcessResponse(frow[t], response, <<t, born[t] + 1>>))
    /\ born' = [born EXCEPT ![t] = @ + 1]
    /\ FetchFrame /\ UNCHANGED textVars

----------------------------------------------------------------------------
(* The event loop.                                                         *)

\* The loop after task t made a blocking call inline: held until it returns.
blocking_call(t) == {t}

\* The loop after task t awaited asyncio.to_thread(...): the call runs in a
\* worker thread and the loop is free (main.py:138, 162).
to_thread(t) == {}

\* Task t can run on the loop.
CanRun(t) == loop \subseteq {t}

\* main.py:146-149
startup_event ==
    /\ rpc = "not_started"
    /\ rpc' = "check"
    /\ UNCHANGED <<df_aozora, novel_cache, loop, fth, frow, fres, born, req,
                   appended, taken, rlast>>
    /\ UNCHANGED textVars

BelowOrAtCapacity(n) == n <= CACHE_SIZE

\* main.py:136
BelowCapacity(n) == n < CACHE_SIZE

\* main.py:135-138, 141: the size check, then the fetch handed to a thread or
\* straight to the pause
ReplenishCheck ==
    /\ rpc = "check"
    /\ CanRun(Replenisher)
    /\ IF BelowCapacity(Len(novel_cache))
       THEN /\ rpc' = "await_fetch"
            /\ fth' = [fth EXCEPT ![Replenisher] = "called"]
            /\ loop' = to_thread(Replenisher)
            /\ UNCHANGED rlast
       ELSE /\ rpc' = "sleep"
            /\ rlast' = "full"
            /\ UNCHANGED <<fth, loop>>
    /\ UNCHANGED <<df_aozora, novel_cache, frow, fres, born, req, appended, taken>>
    /\ UNCHANGED textVars

AppendAlways(novel) == TRUE

\* main.py:139
AppendWanted(novel) == Truthy(novel)

\* The loop with the pause in the branch that did not fetch only.
ReplenishResumeNoPause ==
    /\ rpc = "await_fetch"
    /\ fth[Replenisher] = "returned"
    /\ CanRun(Replenisher)
    /\ LET novel == fres[Replenisher]
       IN  IF novel.kind = "Exception"
           THEN /\ rpc' = "terminated"
                /\ rlast' = "raised"
                /\ UNCHANGED <<novel_cache, appended>>
           ELSE /\ rpc' = "check"
                /\ IF AppendWanted(novel)
                   THEN /\ novel_cache' = Append(novel_cache, novel)
                        /\ appended' = Append(appended, novel)
                        /\ rlast' = "appended"
                   ELSE /\ rlast' = "failed"
                        /\ UNCHANGED <<novel_cache, appended>>
    /\ fth' = [fth EXCEPT ![Replenisher] = "idle"]
    /\ fres' = [fres EXCEPT ![Replenisher] = None]
    /\ loop' = {}
    /\ req' = [r \in Requests |->
                  IF req[r].pc = "done" THEN req[r]
                  ELSE [req[r] EXCEPT !.overlap = FALSE]]
    /\ UNCHANGED <<df_aozora, frow, born, taken>>
    /\ UNCHANGED textVars

\* main.py:138-141: the fetch has returned; append, then pause
ReplenishResume ==
    /\ rpc = "await_fetch"
    /\ fth[Replenisher] = "returned"
    /\ CanRun(Replenisher)
    /\ LET novel == fres[Replenisher]
       IN  IF novel.kind = "Exception"
           THEN /\ rpc' = "terminated"
                /\ rlast' = "raised"
                /\ UNCHANGED <<novel_cache, appended>>
           ELSE /\ rpc' = "sleep"
                /\ IF AppendWanted(novel)
                   THEN /\ novel_cache' = Append(novel_cache, novel)
                        /\ appended' = Append(appended, novel)
                        /\ rlast' = "appended"
                   ELSE /\ rlast' = "failed"
                        /\ UNCHANGED <<novel_cache, appended>>
    /\ fth' = [fth EXCEPT ![Replenisher] = "idle"]
    /\ fres' = [fres EXCEPT ![Replenisher] = None]
    /\ loop' = {}
    /\ req' = [r \in Requests |->
                  IF req[r].pc = "done" THEN req[r]
                  ELSE [req[r] EXCEPT !.overlap = FALSE]]
    /\ UNCHANGED <<df_aozora, frow, born, taken>>
    /\ UNCHANGED textVars

\* main.py:141, 135: asyncio.sleep(1) is over
ReplenishWake ==
    /\ rpc = "sleep"
    /\ CanRun(Replenisher)
    /\ rpc' = "check"
    /\ UNCHANGED <<df_aozora, novel_cache, loop, fth, frow, fres, born, req,
                   appended, taken, rlast>>
    /\ UNCHANGED textVars

\* The worker thread of the replenisher is inside fetch_and_process_novel.
ReplenisherFetching == fth[Replenisher] \in {"called", "http"}

\* The handler with a suspension between the emptiness test and the take.
ServeCheckThenTake(r, n) ==
    /\ rpc # "not_started"
    /\ CanRun(r)
    /\ \/ /\ req[r].pc = "new"
          /\ IF novel_cache = <<>>
             THEN /\ req' = [req EXCEPT ![r] = [pc |-> "await_fetch", num_chars |-> n,
                                                path |-> "live", novel |-> None,
                                                resp |-> None,
                                                overlap |-> ReplenisherFetching]]
                  /\ fth' = [fth EXCEPT ![r] = "called"]
                  /\ loop' = to_thread(r)
             ELSE /\ req' = [req EXCEPT ![r] = [pc |-> "take", num_chars |-> n,
                                                path |-> "cache", novel |-> None,
                                                resp |-> None,
                                                overlap |-> ReplenisherFetching]]
                  /\ UNCHANGED <<fth, loop>>
          /\ UNCHANGED <<novel_cache, taken>>
       \/ /\ req[r].pc = "take"
          /\ LET popped == Pop0(novel_cache)
                 novel == popped.value
             IN  /\ novel_cache' = popped.rest
                 /\ taken' = Append(taken, novel)
                 /\ req' = [req EXCEPT ![r].pc = "done",
                                        ![r].novel = novel,
                                        ![r].resp = Respond(novel, n)]
          /\ UNCHANGED <<fth, loop>>
    /\ UNCHANGED <<df_aozora, rpc, frow, fres, born, appended, rlast>>
    /\ UNCHANGED textVars

\* main.py:159-166, 168-179: request r arrives asking for n characters.  The
\* server takes requests once the start-up handlers have run.
Serve(r, n) ==
    /\ req[r].pc = "new"
    /\ rpc # "not_started"
    /\ CanRun(r)
    /\ IF novel_cache = <<>>
       THEN /\ req' = [req EXCEPT ![r] = [pc |-> "await_fetch", num_chars |-> n,
                                          path |-> "live", novel |-> None,
                                          resp |-> None,
                                          overlap |-> ReplenisherFetching]]
            /\ fth' = [fth EXCEPT ![r] = "called"]
            /\ loop' = to_thread(r)
            /\ UNCHANGED <<novel_cache, taken>>
       ELSE LET popped == Pop0(novel_cache)
                novel == popped.value
            IN  /\ novel_cache' = popped.rest
                /\ taken' = Append(taken, novel)
                /\ req' = [req EXCEPT ![r] = [pc |-> "done", num_chars |-> n,
                                              path |-> "cache", novel |-> novel,
                                              resp |-> Respond(novel, n),
                                              overlap |-> ReplenisherFetching]]
                /\ UNCHANGED <<fth, loop>>
    /\ UNCHANGED <<df_aozora, rpc, frow, fres, born, appended, rlast>>
    /\ UNCHANGED textVars

AnswerAnyway(novel) == FALSE

FallbackSucceeded(novel) == Truthy(novel)

\* main.py:163
FallbackFailed(novel) == ~Truthy(novel)

\* The handler fetching again when its live fetch has failed.
ServeResumeRetrying(r) ==
    /\ req[r].pc = "await_fetch"
    /\ fth[r] = "returned"
    /\ CanRun(r)
    /\ LET novel == fres[r]
       IN  IF novel.kind # "Exception" /\ FallbackFailed(novel)
           THEN /\ req' = [req EXCEPT ![r].overlap = @ /\ ReplenisherFetching]
                /\ fth' = [fth EXCEPT ![r] = "called"]
                /\ loop' = to_thread(r)
           ELSE /\ req' = [req EXCEPT ![r].pc = "done",
                                      ![r].overlap = @ /\ ReplenisherFetching,
                                      ![r].novel = novel,
                                      ![r].resp =
                                          IF novel.kind = "Exception"
                                          THEN InternalServerError
                                          ELSE Respond(novel, req[r].num_chars)]
                /\ fth' = [fth EXCEPT ![r] = "idle"]
                /\ loop' = {}
    /\ fres' = [fres EXCEPT ![r] = None]
    /\ UNCHANGED <<df_aozora, novel_cache, rpc, frow, born, appended, taken, rlast>>
    /\ UNCHANGED textVars

\* The handler keeping the document of its live fetch in the cache as well.
ServeResumeCaching(r) ==
    /\ req[r].pc = "await_fetch"
    /\ fth[r] = "returned"
    /\ CanRun(r)
    /\ LET novel == fres[r]
       IN  /\ req' = [req EXCEPT ![r].pc = "done",
                                 ![r].overlap = @ /\ ReplenisherFetching,
                                 ![r].novel = novel,
                                 ![r].resp =
                                     IF novel.kind = "Exception" THEN InternalServerError
                                     ELSE IF FallbackFailed(novel) THEN Unavailable
                                     ELSE Respond(novel, req[r].num_chars)]
           /\ novel_cache' = IF Truthy(novel) THEN Append(novel_cache, novel)
                             ELSE novel_cache
    /\ fth' = [fth EXCEPT ![r] = "idle"]
    /\ fres' = [fres EXCEPT ![r] = None]
    /\ loop' = {}
    /\ UNCHANGED <<df_aozora, rpc, frow, born, appended, taken, rlast>>
    /\ UNCHANGED textVars

\* main.py:162-164, 168-179: the fallback fetch of request r has returned
ServeResume(r) ==
    /\ req[r].pc = "await_fetch"
    /\ fth[r] = "returned"
    /\ CanRun(r)
    /\ LET novel == fres[r]
       IN  req' = [req EXCEPT ![r].pc = "done",
                              ![r].overlap = @ /\ ReplenisherFetching,
                              ![r].novel = novel,
                              ![r].resp =
                                  IF novel.kind = "Exception" THEN InternalServerError
                                  ELSE IF FallbackFailed(novel) THEN Unavailable
                                  ELSE Respond(novel, req[r].num_chars)]
    /\ fth' = [fth EXCEPT ![r] = "idle"]
    /\ fres' = [fres EXCEPT ![r] = None]
    /\ loop' = {}
    /\ UNCHANGED <<df_aozora, novel_cache, rpc, frow, born, appended, taken, rlast>>
    /\ UNCHANGED textVars

----------------------------------------------------------------------------
(* The text pipeline on its own: the body made of every text, excerpted at *)
(* every requested length.                                                 *)

TextInit ==
    /\ SysInit({"absent"})
    /\ cleaned_text \in TextsUpTo(MaxLen)
    /\ final_text = <<>>
    /\ num_chars = 0
    /\ intro_text = <<>>
    /\ tpc = "text"

\* main.py:115-118
Normalize ==
    /\ tpc = "text"
    /\ final_text' = NormalizeText(cleaned_text)
    /\ tpc' = "body"
    /\ UNCHANGED <<cleaned_text, num_chars, intro_text>>
    /\ UNCHANGED sysVars

\* main.py:168-172
MakeExcerpt(n) ==
    /\ tpc = "body"
    /\ num_chars' = n
    /\ intro_text' = Excerpt(final_text, n)
    /\ tpc' = "excerpt"
    /\ UNCHANGED <<cleaned_text, final_text>>
    /\ UNCHANGED sysVars

----------------------------------------------------------------------------
(* Specifications.                                                         *)

FetchFails(t) ==
    \/ FetchNoCatalog(t)
    \/ FetchSampleError(t)
    \/ FetchCopyrighted(t)
    \/ FetchFailed(t)

FetchSucceeds(t) ==
    \/ FetchGet(t)
    \/ FetchParsed(t)

ReplenisherStep ==
    \/ ReplenishCheck
    \/ ReplenishResume
    \/ ReplenishWake

RequestStep ==
    \/ \E r \in Requests : ValidNumChars(RequestLength(r)) /\ Serve(r, RequestLength(r))
    \/ \E r \in Requests : ServeResume(r)

Next ==
    \/ startup_event
    \/ ReplenisherStep
    \/ RequestStep
    \/ \E t \in Tasks : FetchFails(t)
    \/ \E t \in Tasks : FetchSucceeds(t)

\* The service under every interleaving.
Spec == Init /\ [][Next]_vars

\* The event loop runs every coroutine that is ready, and timers fire.
LoopFairness ==
    /\ WF_vars(startup_event)
    /\ WF_vars(ReplenisherStep)
    /\ WF_vars(\E r \in Requests : ServeResume(r))

FairSpec == Spec /\ LoopFairness

NextFetchOk ==
    \/ startup_event
    \/ ReplenisherStep
    \/ RequestStep
    \/ \E t \in Tasks : FetchSucceeds(t)

\* A catalog of works in the public domain only and a network that always
\* answers with a parsable page: every fetch returns a document.
LiveInit == SysInit({"rows"}) /\ TextIdle

LiveSpec ==
    /\ LiveInit
    /\ [][NextFetchOk]_vars
    /\ LoopFairness
    /\ WF_vars(\E t \in Tasks : FetchSucceeds(t))

NextAnyLength ==
    \/ startup_event
    \/ ReplenisherStep
    \/ \E r \in Requests : \E n \in RequestLengths : ValidNumChars(n) /\ Serve(r, n)
    \/ \E r \in Requests : ServeResume(r)
    \/ \E t \in Tasks : FetchSucceeds(t)

\* Every fetch returns a document and every request asks for any of the
\* lengths: requests of one length are answered on both paths.
LengthSpec == LiveInit /\ [][NextAnyLength]_vars

\* No request has arrived.
NoArrivalYet == \A r \in Requests : req[r].pc = "new"

BurstNext ==
    \/ startup_event
    \/ ReplenishCheck
    \/ NoArrivalYet /\ ReplenishResume
    \/ ReplenishWake
    \/ RequestStep
    \/ \E t \in Tasks : FetchFails(t)
    \/ \E t \in Tasks : FetchSucceeds(t)

\* A burst of requests: once the first request has arrived, the fetch of the
\* replenisher stays in flight until the run ends, so that the requests share
\* the documents the cache held when the first of them arrived.
BurstSpec == Init /\ [][BurstNext]_vars

TextNext ==
    \/ Normalize
    \/ \E n \in PipelineLengths : MakeExcerpt(n)

TextSpec == TextInit /\ [][TextNext]_vars

----------------------------------------------------------------------------
(* Claims.                                                                 *)

\* Position of object d in sequence q, 0 when it is not there.
PosIn(q, d) ==
    IF \E k \in 1..Len(q) : q[k] = d
    THEN CHOOSE k \in 1..Len(q) : q[k] = d
    ELSE 0

\* Request r has just taken the head of the cache (seen across one step).
TakesFromCache(r) ==
    /\ req[r].pc = "new"
    /\ req'[r].pc = "done"

\* C1 (state part): of two documents appended to the cache, the later one has
\* been taken only if the earlier one was taken before it.
C1_TakenInAppendOrder ==
    \A i, j \in 1..Len(appended) :
        (i < j /\ PosIn(taken, appended[j]) > 0)
            => /\ PosIn(taken, appended[i]) > 0
               /\ PosIn(taken, appended[i]) < PosIn(taken, appended[j])

\* C1 (step part): a take on a cache that holds only the document appended
\* last returns exactly that document.
C1_TakeOfSingleton ==
    \A r \in Requests :
        (TakesFromCache(r) /\ Len(novel_cache) = 1
                           /\ novel_cache[1] = appended[Len(appended)])
            => req'[r].novel = appended[Len(appended)]

\* C1: cached documents are served in FIFO order under every interleaving of
\* the replenisher and the requests: a document appended later is never taken
\* before one appended earlier, and a take on a cache holding only the document
\* just appended returns that document.
C1_Fifo == [](C1_TakenInAppendOrder) /\ [][C1_TakeOfSingleton]_vars

\* C1 witness: two documents have been taken by two requests while a third
\* waits in the cache.
C1_Witness ==
    /\ Len(taken) >= 2
    /\ novel_cache # <<>>
    /\ \A r \in {1, 2} : req[r].pc = "done" /\ req[r].path = "cache"

\* The response of request r is the excerpt of the one document it holds.
ExcerptOfOwnDocument(r) ==
    /\ req[r].resp.kind = "SearchResult"
    /\ req[r].novel.kind = "NovelCache"
    /\ req[r].resp.name = req[r].novel.name
    /\ req[r].resp.url = req[r].novel.url
    /\ req[r].resp.content = Excerpt(req[r].novel.content, req[r].num_chars)
    /\ \/ req[r].path = "cache" /\ PosIn(taken, req[r].novel) > 0
       \/ req[r].path = "live" /\ req[r].novel.obj[1] = r

\* C2: a request that has completed either answers the excerpt of exactly one
\* document (the head it took from the cache, or the one its own fetch made) or
\* answers Unavailable; it answers Unavailable exactly when it found the cache
\* empty and its fallback fetch returned nothing; no other outcome occurs.
C2_TwoOutcomes ==
    \A r \in Requests :
        req[r].pc = "done" =>
            /\ (req[r].resp = Unavailable) \/ ExcerptOfOwnDocument(r)
            /\ (req[r].resp = Unavailable)
                   <=> (req[r].path = "live" /\ req[r].novel = None)

\* C2 witness: one request was answered Unavailable and another an excerpt of a
\* document of its own live fetch.
C2_Witness ==
    \E r1, r2 \in Requests :
        /\ req[r1].pc = "done" /\ req[r1].resp = Unavailable
        /\ req[r2].pc = "done" /\ req[r2].path = "live"
        /\ req[r2].resp.kind = "SearchResult"

\* The objects request r holds after completing.
HeldBy(r) ==
    IF req[r].pc = "done" /\ req[r].novel.kind = "NovelCache"
    THEN {req[r].novel}
    ELSE {}

\* C3 (step part): a request served from the cache removes exactly the head and
\* makes the cache one shorter.
C3_TakeRemovesHead ==
    \A r \in Requests :
        TakesFromCache(r) =>
            /\ novel_cache # <<>>
            /\ req'[r].novel = Head(novel_cache)
            /\ novel_cache' = Tail(novel_cache)
            /\ Len(novel_cache') = Len(novel_cache) - 1

\* C3 (state part): no object is in the cache twice, in the cache and held by
\* a request, or held by two requests.
C3_SingleOwner ==
    /\ \A i, j \in 1..Len(novel_cache) : novel_cache[i] = novel_cache[j] => i = j
    /\ \A i \in 1..Len(novel_cache), r \in Requests : novel_cache[i] \notin HeldBy(r)
    /\ \A r1, r2 \in Requests : r1 # r2 => HeldBy(r1) \cap HeldBy(r2) = {}

\* C3: ownership moves on take: the request served from the cache removes
\* exactly the head document and shortens the cache by one, and no document
\* object is ever in the cache twice or delivered to two requests.
C3_OwnershipMoves == [](C3_SingleOwner) /\ [][C3_TakeRemovesHead]_vars

\* C3 witness: two requests each hold a document taken from the cache and the
\* cache still holds others.
C3_Witness ==
    /\ \A r \in {1, 2} : req[r].path = "cache" /\ HeldBy(r) # {}
    /\ Len(novel_cache) >= 2

\* The fetch of the replenisher has returned without a document and the
\* coroutine has yet to resume.
ReplenisherFetchFailed ==
    /\ rpc = "await_fetch"
    /\ fth[Replenisher] = "returned"
    /\ fres[Replenisher].kind # "NovelCache"

\* C4 (step part): the step of the replenisher that receives a failed fetch
\* leaves the cache and every request as they were and goes to the pause; the
\* failing step of the fetch itself leaves the cache as it was.
C4_FailureAbsorbed ==
    /\ (ReplenisherFetchFailed /\ rpc' # rpc)
           => /\ rpc' = "sleep"
              /\ novel_cache' = novel_cache
              /\ \A r \in Requests : /\ req'[r].pc = req[r].pc
                                     /\ req'[r].resp = req[r].resp
                                     /\ req'[r].novel = req[r].novel
    /\ (ReplenisherFetching /\ ReplenisherFetchFailed') => novel_cache' = novel_cache

\* C4: a failed fetch inside the replenisher leaves the cache unchanged, never
\* ends the loop and reaches no request: the step that receives the failure
\* goes to the pause, and the replenisher then comes to its next iteration.
C4_ReplenisherSurvivesFailure ==
    /\ [][C4_FailureAbsorbed]_vars
    /\ [](rpc # "terminated")
    /\ (ReplenisherFetchFailed ~> (rpc = "check" /\ rlast = "failed"))

\* C4 witness: the replenisher is at a new iteration after a failed one, with
\* the documents of earlier iterations still in the cache.
C4_Witness ==
    /\ rpc = "check"
    /\ rlast = "failed"
    /\ novel_cache # <<>>
    /\ novel_cache = SubSeq(appended, Len(taken) + 1, Len(appended))

\* C5 (step part): no step of the replenisher makes the cache shorter.
C5_ReplenisherNeverShrinks ==
    rpc' # rpc => Len(novel_cache') >= Len(novel_cache)

\* C5: with a fetcher that always succeeds and a fairly scheduled replenisher,
\* starting from the empty cache, no replenisher step shortens the cache, and
\* once requests have stopped arriving (each behaviour has at most MaxRequests
\* arrivals) the cache reaches CACHE_SIZE documents and keeps exactly that many.
C5_FillsAndStays ==
    /\ [][C5_ReplenisherNeverShrinks]_vars
    /\ <>[](Len(novel_cache) = CACHE_SIZE)

\* C5 witness: every request has been answered, some of them from the cache,
\* and the replenisher has found the cache full again.
C5_Witness ==
    /\ Len(novel_cache) = CACHE_SIZE
    /\ \A r \in Requests : req[r].pc = "done"
    /\ taken # <<>>
    /\ rpc = "sleep" /\ rlast = "full"

\* C6 (state part): the size is the number of appends minus the number of takes.
C6_SizeIsAppendsMinusTakes ==
    Len(novel_cache) = Len(appended) - Len(taken)

\* C6 (step part): the cache changes only by the replenisher appending the
\* document its fetch returned (one longer) or by a request taking (one shorter).
C6_OnlyAppendAndTake ==
    novel_cache' # novel_cache =>
        \/ /\ rpc = "await_fetch" /\ rpc' = "sleep"
           /\ fres[Replenisher].kind = "NovelCache"
           /\ Len(novel_cache') = Len(novel_cache) + 1
           /\ Len(appended') = Len(appended) + 1 /\ taken' = taken
        \/ /\ \E r \in Requests : TakesFromCache(r)
           /\ Len(novel_cache') = Len(novel_cache) - 1
           /\ Len(taken') = Len(taken) + 1 /\ appended' = appended

\* C6: in every reachable state the cache size is the number of successful
\* replenisher appends minus the number of takes by requests, and only such an
\* append (plus one) and such a take (minus one) change the size.
C6_SizeAccounting == [](C6_SizeIsAppendsMinusTakes) /\ [][C6_OnlyAppendAndTake]_vars

\* C6 witness: three appends and two takes leave one document.
C6_Witness ==
    /\ Len(appended) = 3
    /\ Len(taken) = 2
    /\ Len(novel_cache) = 1

\* C7: for every body and every requested length, a body no longer than the
\* length is returned unchanged, with no ellipsis; a longer body gives exactly
\* its first num_chars characters followed by one ellipsis; the excerpt is
\* never longer than num_chars + 1.
C7_ExcerptShape ==
    tpc = "excerpt" =>
        /\ Len(final_text) <= num_chars
              => /\ intro_text = final_text
                 /\ \A i \in 1..Len(intro_text) : intro_text[i] # Ellipsis
        /\ Len(final_text) > num_chars
              => /\ Len(intro_text) = num_chars + 1
                 /\ \A i \in 1..num_chars : intro_text[i] = final_text[i]
                 /\ intro_text[num_chars + 1] = Ellipsis
                 /\ Cardinality({i \in 1..Len(intro_text) : intro_text[i] = Ellipsis}) = 1
        /\ Len(intro_text) <= num_chars + 1

\* C7 witness: a body of exactly the requested length, three characters or
\* more, has been excerpted.
C7_Witness ==
    /\ tpc = "excerpt"
    /\ Len(final_text) = num_chars
    /\ num_chars >= 3

\* C8: whenever a fetch of the replenisher is in flight, a request that has not
\* arrived can be served at once, and a request inside its fallback can take
\* its next step (its own fetch, or its answer): no request waits for the
\* replenisher's fetch.
C8_FetchBlocksNoRequest ==
    ReplenisherFetching =>
        \A r \in Requests :
            /\ req[r].pc = "new" => ENABLED Serve(r, RequestLength(r))
            /\ req[r].pc = "await_fetch"
                   => ENABLED (FetchFails(r) \/ FetchSucceeds(r) \/ ServeResume(r))

\* C8 witness: one request arrived, ran its own fallback fetch and was answered,
\* and another was served from the cache, each within a single fetch of the
\* replenisher that is in flight.
C8_Witness ==
    /\ ReplenisherFetching
    /\ \E r \in Requests :
          req[r].pc = "done" /\ req[r].path = "live" /\ req[r].overlap
    /\ \E r \in Requests :
          req[r].pc = "done" /\ req[r].path = "cache" /\ req[r].overlap

\* C9: when the csv file is absent at start-up the process runs with no
\* catalog: no fetch reaches the network, every fetch returns nothing, the
\* cache stays empty, the replenisher keeps running and every request is
\* answered Unavailable.
C9_NoCatalog ==
    df_aozora.kind # "DataFrame" =>
        /\ df_aozora = None
        /\ novel_cache = <<>>
        /\ rpc # "terminated"
        /\ \A t \in Tasks : /\ fth[t] # "http"
                            /\ fth[t] = "returned" => fres[t] = None
        /\ \A r \in Requests : req[r].pc = "done" => req[r].resp = Unavailable

\* C9 witness: without a catalog, every request has been answered Unavailable
\* and the replenisher is at a new iteration after a failed one.
C9_Witness ==
    /\ df_aozora = None
    /\ \A r \in Requests : req[r].pc = "done" /\ req[r].resp = Unavailable
    /\ rpc = "check" /\ rlast = "failed"

\* Position i of text b is the first of a line / the last of a line.
LineStart(b, i) == i = 1 \/ b[i - 1] = "LF"
LineEnd(b, i) == i = Len(b) \/ b[i + 1] = "LF"

\* C10: the normalised body has no line that starts or ends with a blank, no
\* three newlines in a row, and neither starts nor ends with a blank or a
\* newline.
C10_NormalisedBody ==
    tpc # "text" =>
        /\ \A i \in 1..Len(final_text) :
              (final_text[i] \in Whitespace \ {"LF"})
                  => ~LineStart(final_text, i) /\ ~LineEnd(final_text, i)
        /\ \A i \in 1..(Len(final_text) - 2) :
              ~(final_text[i] = "LF" /\ final_text[i + 1] = "LF"
                                     /\ final_text[i + 2] = "LF")
        /\ final_text # <<>>
              => /\ final_text[1] \notin Whitespace
                 /\ final_text[Len(final_text)] \notin Whitespace

\* C10 witness: a text with a blank-only line among three line breaks has
\* been normalised to two paragraphs one blank line apart.
C10_Witness ==
    /\ tpc = "body"
    /\ cleaned_text = <<"x", "VT", "SP", "CR", "LF", "x">>
    /\ final_text = <<"x", "LF", "LF", "x">>

\* Request r has been answered with a document in hand.
Answered(r) == req[r].pc = "done" /\ req[r].novel.kind = "NovelCache"

\* C11: the excerpt depends on the body of the document and the requested
\* length and on nothing else: two requests answered with documents of the same
\* body at the same length get the same excerpt, whatever the cache held and
\* whichever path (cache or live fallback) supplied each document.
C11_ExcerptDeterministic ==
    \A r1, r2 \in Requests :
        (/\ Answered(r1) /\ Answered(r2)
         /\ req[r1].novel.content = req[r2].novel.content
         /\ req[r1].num_chars = req[r2].num_chars)
            => /\ req[r1].resp.kind = "SearchResult"
               /\ req[r2].resp.kind = "SearchResult"
               /\ req[r1].resp.content = req[r2].resp.content

\* C11 witness: a request served from the cache and a request served by its
\* own live fetch asked the same length, shorter than the body both documents
\* share, and documents wait in the cache.
C11_Witness ==
    \E r1, r2 \in Requests :
        /\ Answered(r1) /\ req[r1].path = "cache"
        /\ Answered(r2) /\ req[r2].path = "live"
        /\ req[r1].novel.content = req[r2].novel.content
        /\ req[r1].num_chars = req[r2].num_chars
        /\ req[r1].num_chars < Len(req[r1].novel.content)
        /\ novel_cache # <<>>

\* C12 (state part): the cache holds at most CACHE_SIZE documents, and fewer
\* while a fetch of the replenisher is awaited.
C12_WithinCapacity ==
    /\ Len(novel_cache) <= CACHE_SIZE
    /\ rpc = "await_fetch" => Len(novel_cache) < CACHE_SIZE

\* C12 (step part): while the replenisher stays suspended on its fetch, the
\* cache changes only by a request taking its head.
C12_OnlyTakesWhileFetching ==
    (rpc = "await_fetch" /\ rpc' = "await_fetch" /\ novel_cache' # novel_cache)
        => /\ \E r \in Requests : TakesFromCache(r)
           /\ novel_cache' = Tail(novel_cache)

\* C12: with the one replenisher task of start-up, the cache never holds more
\* than CACHE_SIZE documents, although the size check and the append are
\* separated by a suspended fetch: between the two only takes by requests
\* change the cache.
C12_NeverOverCapacity ==
    [](C12_WithinCapacity) /\ [][C12_OnlyTakesWhileFetching]_vars

\* C12 witness: the append that followed a check at CACHE_SIZE - 1 documents
\* has filled the cache, after requests had taken from it.
C12_Witness ==
    /\ Len(novel_cache) = CACHE_SIZE
    /\ rpc = "sleep" /\ rlast = "appended"
    /\ Len(taken) >= 2

\* Request r is answered Unavailable (seen across one step).
AnsweredUnavailable(r) ==
    /\ req[r].pc # "done"
    /\ req'[r].pc = "done"
    /\ req'[r].resp = Unavailable

\* C13 as stated: at the moment a request is answered Unavailable, the cache
\* holds no document.
C13_CacheEmptyWhenUnavailable ==
    [][\A r \in Requests : AnsweredUnavailable(r) => novel_cache = <<>>]_vars

\* C13 (step part, arrival): a request goes to the live fetch only from a check
\* that found the cache empty.
C13_FallbackOnlyFromEmptyCache ==
    \A r \in Requests :
        (req[r].pc = "new" /\ req'[r].pc = "await_fetch")
            => novel_cache = <<>> /\ req'[r].path = "live"

\* C13 (step part, answer): the step that answers Unavailable is the one that
\* receives the result of the request's own fallback fetch, and that result
\* is no document.
C13_UnavailableOnlyFromFailedFallback ==
    \A r \in Requests :
        AnsweredUnavailable(r)
            => /\ req[r].pc = "await_fetch" /\ req[r].path = "live"
               /\ fth[r] = "returned"
               /\ fres[r] = None

\* C13 amended: Unavailable is answered only to a request that found the cache
\* empty when it checked it and whose fallback fetch then returned no
\* document; nothing is said of the cache at the moment of the answer.
C13_UnavailableOnlyAfterEmptyCheck ==
    /\ [][C13_FallbackOnlyFromEmptyCache]_vars
    /\ [][C13_UnavailableOnlyFromFailedFallback]_vars

\* C13 witness: a request has been answered Unavailable while the cache holds
\* a document the replenisher appended during the request's fallback fetch.
C13_Witness ==
    \E r \in Requests :
        /\ req[r].pc = "done"
        /\ req[r].resp = Unavailable
        /\ novel_cache # <<>>
        /\ taken = <<>>

\* The requests that have arrived, and those that took each path.
Arrived == {r \in Requests : req[r].pc # "new"}
ServedFromCache == {r \in Requests : req[r].path = "cache"}
WentLive == {r \in Requests : req[r].path = "live"}

Min(a, b) == IF a <= b THEN a ELSE b

\* C14 (step part): the step in which a request arrives both tests the cache
\* and, when it is not empty, takes its head.
C14_CheckAndTakeInOneStep ==
    \A r \in Requests :
        (req[r].pc = "new" /\ req'[r].pc # "new")
            => IF novel_cache = <<>>
               THEN /\ req'[r].pc = "await_fetch" /\ req'[r].path = "live"
                    /\ novel_cache' = novel_cache
               ELSE /\ req'[r].pc = "done" /\ req'[r].path = "cache"
                    /\ req'[r].novel = Head(novel_cache)
                    /\ novel_cache' = Tail(novel_cache)

\* C14 (state part): no take has met an empty cache, and of the k requests
\* that have arrived since the cache held m documents, min(k, m) were served
\* from the cache and the others went to the live fetch.
C14_BurstSplit ==
    /\ \A r \in Requests : /\ req[r].novel.kind # "Exception"
                            /\ req[r].resp # InternalServerError
    /\ Cardinality(ServedFromCache) = Min(Cardinality(Arrived), Len(appended))
    /\ Cardinality(WentLive) = Cardinality(Arrived) - Cardinality(ServedFromCache)
    /\ ServedFromCache \cup WentLive = Arrived

\* C14: the emptiness check of a request and its take are one step, so no take
\* is attempted on an empty cache; when k requests arrive while the cache holds
\* m < k documents and nothing is appended meanwhile, exactly m of them are
\* served from the cache and the other k - m go to the live fetch.
C14_AtomicCheckAndTake ==
    [](C14_BurstSplit) /\ [][C14_CheckAndTakeInOneStep]_vars

\* C14 witness: the cache held fewer documents than requests arrived: one
\* request took the only document and another, with the first request's
\* answer already given, is on the live path.
C14_Witness ==
    /\ Len(appended) = 1
    /\ Arrived = Requests
    /\ Cardinality(ServedFromCache) = 1
    /\ Cardinality(WentLive) = Cardinality(Requests) - 1
    /\ \A r \in Requests : req[r].pc = "done"

\* Request r on the live path takes a step of its own: it arrives at an empty
\* cache, or it resumes with the result of its fetch.
LivePathStep(r) == req'[r].pc # req[r].pc /\ req'[r].path = "live"

\* The worker thread running fetch_and_process_novel for task t takes a step.
FetchThreadStep(t) == fth[t] \in {"called", "http"} /\ fth'[t] # fth[t]

\* C15 (step part): the steps of a request on the live path and the steps of
\* the fetcher, for whichever task, leave the cache as it was.
C15_LivePathKeepsCache ==
    /\ \A r \in Requests : LivePathStep(r) => novel_cache' = novel_cache
    /\ \A t \in Tasks : FetchThreadStep(t) => novel_cache' = novel_cache

\* C15 (state part): the cache holds only documents the replenisher fetched; a
\* request on the live path holds nothing or the document of its own fetch,
\* never one that was in the cache; and a fetch in flight can take its next
\* step whatever the cache holds.
C15_LiveDocumentsStayOut ==
    /\ \A i \in 1..Len(novel_cache) : novel_cache[i].obj[1] = Replenisher
    /\ \A r \in Requests :
          req[r].path = "live"
              => \/ req[r].novel = None
                 \/ /\ req[r].novel.kind = "NovelCache"
                    /\ req[r].novel.obj[1] = r
                    /\ PosIn(appended, req[r].novel) = 0
                    /\ PosIn(taken, req[r].novel) = 0
    /\ \A t \in Tasks :
          fth[t] \in {"called", "http"} => ENABLED (FetchFails(t) \/ FetchSucceeds(t))

\* C15: a request on the live-fallback path changes the cache by none of its
\* own steps, from arrival to answer: the document it fetched is never
\* appended, and it takes nothing from the cache even when the replenisher
\* appends during its fetch; no step of the fetcher changes the cache or waits
\* on it.
C15_FallbackLeavesCache ==
    [](C15_LiveDocumentsStayOut) /\ [][C15_LivePathKeepsCache]_vars

\* C15 witness: a request has answered with the document of its own live
\* fetch while documents the replenisher appended during that fetch lie
\* untouched in the cache.
C15_Witness ==
    \E r \in Requests :
        /\ req[r].pc = "done" /\ req[r].path = "live"
        /\ req[r].resp.kind = "SearchResult"
        /\ Len(novel_cache) >= 2
        /\ novel_cache = appended
        /\ \A q \in Requests \ {r} : req[q].pc = "new"

\* A call of fetch_and_process_novel starts for task t (seen across one step).
StartsFetch(t) == fth[t] = "idle" /\ fth'[t] # "idle"

\* C16 (step part): a fetch starts for a request only in the step in which the
\* request arrives and finds the cache empty; a request that has arrived never
\* arrives again; and when its fetch has returned, the next step of the
\* request gives the answer and starts nothing.
C16_OneFetchOnEmptyCheck ==
    \A r \in Requests :
        /\ StartsFetch(r)
              => /\ req[r].pc = "new"
                 /\ novel_cache = <<>>
                 /\ req'[r].pc = "await_fetch"
        /\ req[r].pc # "new" => req'[r].pc # "new"
        /\ (fth[r] = "returned" /\ fth'[r] # "returned")
              => /\ fth'[r] = "idle"
                 /\ req'[r].pc = "done"
                 /\ req'[r].resp = IF fres[r] = None THEN Unavailable
                                   ELSE Respond(fres[r], req[r].num_chars)

\* C16 (state part): a request served from the cache has made no fetch, a
\* request that has been answered has none in flight, and no request has
\* fetched more than one document.
C16_NoFetchOnHit ==
    \A r \in Requests :
        /\ req[r].path = "cache" => fth[r] = "idle" /\ born[r] = 0
        /\ req[r].pc \in {"new", "done"} => fth[r] = "idle"
        /\ born[r] <= 1

\* C16: a request makes at most one fetch attempt, and makes it only when it
\* found the cache empty: a request served from the cache fetches nothing, and
\* a request whose fallback fetch failed answers Unavailable without another
\* attempt.
C16_AtMostOneFetch == [](C16_NoFetchOnHit) /\ [][C16_OneFetchOnEmptyCheck]_vars

\* C16 witness: one request was answered Unavailable after its one failed
\* fetch, and another was served the one document of the cache without
\* fetching.
C16_Witness ==
    \E r1, r2 \in Requests :
        /\ req[r1].pc = "done" /\ req[r1].resp = Unavailable /\ born[r1] = 0
        /\ req[r2].pc = "done" /\ req[r2].path = "cache" /\ born[r2] = 0
        /\ Len(appended) = 1
        /\ \A t \in Requests : fth[t] = "idle"

\* C17 (step part): the size check of the replenisher that finds CACHE_SIZE
\* documents or more goes to the pause, starts no fetch and leaves the cache as
\* it was; and the replenisher starts a fetch only from a check that found
\* fewer.
C17_FullCheckOnlyPauses ==
    /\ (rpc = "check" /\ rpc' # "check" /\ Len(novel_cache) >= CACHE_SIZE)
           => /\ rpc' = "sleep"
              /\ ~StartsFetch(Replenisher)
              /\ novel_cache' = novel_cache
    /\ StartsFetch(Replenisher)
           => rpc = "check" /\ Len(novel_cache) < CACHE_SIZE
    /\ (rpc = "sleep" /\ rlast = "full" /\ rpc' # rpc)
           => /\ rpc' = "check"
              /\ ~StartsFetch(Replenisher)
              /\ novel_cache' = novel_cache

\* C17 (state part): during the pause of an iteration that found the cache
\* full, the replenisher has no fetch in flight.
C17_NoFetchWhileFull ==
    (rpc = "sleep" /\ rlast = "full") => fth[Replenisher] = "idle"

\* C17: in an iteration whose size check finds the cache at or above
\* CACHE_SIZE, the replenisher starts no fetch: it only pauses, and leaves the
\* cache unchanged.
C17_NoFetchWhenFull == [](C17_NoFetchWhileFull) /\ [][C17_FullCheckOnlyPauses]_vars

\* C17 witness: the replenisher is back at its size check after an iteration
\* that found the cache full, and the cache is full still.
C17_Witness ==
    /\ rpc = "check"
    /\ rlast = "full"
    /\ Len(novel_cache) = CACHE_SIZE
    /\ fth[Replenisher] = "idle"

\* C18 (step part): a fetch of the replenisher starts at the size check and
\* suspends the replenisher; the replenisher leaves that suspension only when
\* the fetch has returned, and then goes to the pause; every iteration, however
\* it went, ends in the pause; and a size check is reached only from the pause
\* (or from start-up).
C18_PauseEndsEveryIteration ==
    /\ StartsFetch(Replenisher) => rpc = "check" /\ rpc' = "await_fetch"
    /\ (rpc = "await_fetch" /\ rpc' # rpc)
           => /\ fth[Replenisher] = "returned"
              /\ fth'[Replenisher] = "idle"
              /\ rpc' = "sleep"
    /\ rlast' # rlast => rpc' = "sleep" /\ rlast' \in {"full", "appended", "failed"}
    /\ (rpc = "check" /\ rpc' # rpc) => rpc' \in {"await_fetch", "sleep"}
    /\ (rpc' = "check" /\ rpc' # rpc) => rpc \in {"sleep", "not_started"}

\* C18 (state part): the replenisher has a fetch under way exactly while it is
\* suspended on it, so never a second one beside it.
C18_OneFetchInFlight ==
    fth[Replenisher] # "idle" <=> rpc = "await_fetch"

\* C18: the replenisher has at most one fetch in flight, and every iteration
\* (cache full, fetch succeeded, fetch failed) ends with the pause: between two
\* consecutive fetch attempts of the replenisher there is always a pause.
C18_PauseBetweenFetches ==
    [](C18_OneFetchInFlight) /\ [][C18_PauseEndsEveryIteration]_vars

\* C18 witness: a fetch of the replenisher is in flight after an iteration
\* that failed and an earlier one that appended.
C18_Witness ==
    /\ rpc = "await_fetch"
    /\ ReplenisherFetching
    /\ rlast = "failed"
    /\ appended # <<>>

====
